---- MODULE Spec2Model ----
(***************************************************************************)
(* Model of app.py: Entry (constructor, to_dict, from_dict) and Ledger     *)
(* (add, delete, update, search, list_all, total_balance, save, load).     *)
(*                                                                         *)
(* Python strings are sequences of one-character strings, so that          *)
(* str.lower, the substring test `in`, truthiness of "" and the            *)
(* lexicographic order on dates are computed rather than assumed.          *)
(* JSON values (request bodies, records of data.json) are tagged records   *)
(* [t, s, n]; Entry attributes hold the plain values.  Amounts are floats  *)
(* with small non-negative integral values, on which float arithmetic is   *)
(* exact.                                                                  *)
(***************************************************************************)
EXTENDS Integers, Sequences, FiniteSets, TLC

\* Number of calls that can change the ledger (add, delete, update) and of
\* restarts explored after construction; the read-only calls are not counted.
MaxOps == 2

-----------------------------------------------------------------------------
(* JSON values *)

JStr(s) == [t |-> "str", s |-> s, n |-> 0]
JNum(n) == [t |-> "num", s |-> <<>>, n |-> n]
JNull == [t |-> "null", s |-> <<>>, n |-> 0]
\* A key that a JSON object does not have (dict.get falls to its default).
Missing == [t |-> "missing", s |-> <<>>, n |-> 0]

\* Python truthiness as used by `id or ...` and `date or ...`.
Falsy(v) == v.t = "null" \/ (v.t = "str" /\ v.s = <<>>)

(* Character tables *)

Digits == <<"0", "1", "2", "3", "4", "5", "6", "7", "8", "9">>

IsDigit(c) == \E i \in 1..Len(Digits) : Digits[i] = c

DigitVal(c) == (CHOOSE i \in 1..Len(Digits) : Digits[i] = c) - 1

\* Code point order of the characters dates are made of: "-" < "0" < ... < "9".
Ord(c) == IF IsDigit(c) THEN 48 + DigitVal(c) ELSE IF c = "-" THEN 45 ELSE 97

\* str.lower() on the alphabet {a, b, A, B}.
LowerChar(c) == IF c = "A" THEN "a" ELSE IF c = "B" THEN "b" ELSE c

Lower(s) == [i \in 1..Len(s) |-> LowerChar(s[i])]

\* Python `kw in s` for strings: scan the start positions left to right.
RECURSIVE FindFrom(_, _, _)
FindFrom(kw, s, i) ==
    IF i + Len(kw) - 1 > Len(s) THEN FALSE
    ELSE IF SubSeq(s, i, i + Len(kw) - 1) = kw THEN TRUE
    ELSE FindFrom(kw, s, i + 1)

Contains(kw, s) == FindFrom(kw, s, 1)

\* Python `a < b` on strings: first differing character decides, a proper
\* prefix is smaller.
RECURSIVE StrLess(_, _)
StrLess(a, b) ==
    IF b = <<>> THEN FALSE
    ELSE IF a = <<>> THEN TRUE
    ELSE IF Head(a) = Head(b) THEN StrLess(Tail(a), Tail(b))
    ELSE Ord(Head(a)) < Ord(Head(b))

\* float(v): a number converts to itself, a string of decimal digits to its
\* value; anything else raises (ok = FALSE).
RECURSIVE DigitsValue(_)
DigitsValue(s) ==
    IF s = <<>> THEN 0 ELSE 10 * DigitsValue(SubSeq(s, 1, Len(s) - 1)) + DigitVal(s[Len(s)])

ToFloat(v) ==
    IF v.t = "num" THEN [ok |-> TRUE, val |-> v.n]
    ELSE IF v.t = "str" /\ v.s # <<>> /\ \A i \in 1..Len(v.s) : IsDigit(v.s[i])
         THEN [ok |-> TRUE, val |-> DigitsValue(v.s)]
    ELSE [ok |-> FALSE, val |-> 0]

-----------------------------------------------------------------------------
(* Values used as inputs *)

INCOME == <<"i", "n", "c", "o", "m", "e">>
EXPENSE == <<"e", "x", "p", "e", "n", "s", "e">>
GIFT == <<"g", "i", "f", "t">>

D1 == <<"2", "0", "2", "4", "-", "0", "1", "-", "0", "1">>
D2 == <<"2", "0", "2", "4", "-", "0", "2", "-", "0", "1">>
D3 == <<"2", "0", "2", "4", "-", "0", "3", "-", "0", "1">>

\* datetime.now().date().isoformat(): the date of the run.
Today == D2

\* str(uuid4()): the n-th identifier generated; distinct for distinct n and
\* distinct from every identifier a caller supplies.
Uuid(n) == <<"u", "-">> \o [i \in 1..n |-> "1"]

IDA == <<"a">>
IDB == <<"b">>
IDC == <<"c">>

-----------------------------------------------------------------------------
(* class Entry *)

Fields == {"id", "title", "amount", "category", "kind", "note", "date"}

\* Entry.__init__ for arguments whose amount converts (see EntryRaises).
EntryInit(title, amount, category, kind, note, date, id, uuid) ==
    [id |-> IF Falsy(id) THEN uuid ELSE id.s,
     title |-> title.s,
     amount |-> ToFloat(amount).val,
     category |-> category.s,
     kind |-> kind.s,
     note |-> note.s,
     date |-> IF Falsy(date) THEN Today ELSE date.s]

\* float(amount) raising inside Entry.__init__.
EntryRaises(amount) == ~ToFloat(amount).ok

\* uuid4() is called by `id or str(uuid4())` only when id is falsy.
DrawsUuid(id) == Falsy(id)

to_dict(e) ==
    [id |-> JStr(e.id),
     title |-> JStr(e.title),
     amount |-> JNum(e.amount),
     category |-> JStr(e.category),
     kind |-> JStr(e.kind),
     note |-> JStr(e.note),
     date |-> JStr(e.date)]

\* d.get(k, default)
Get(d, k, default) == IF d[k] = Missing THEN default ELSE d[k]

from_dict(d, uuid) ==
    EntryInit(Get(d, "title", JStr(<<>>)),
              Get(d, "amount", JNum(0)),
              Get(d, "category", JStr(<<>>)),
              Get(d, "kind", JStr(EXPENSE)),
              Get(d, "note", JStr(<<>>)),
              Get(d, "date", JNull),
              Get(d, "id", JNull),
              uuid)

from_dict_raises(d) == EntryRaises(Get(d, "amount", JNum(0)))

-----------------------------------------------------------------------------
(* class Ledger: pure parts.  A data file is [st, recs]: st is "absent"    *)
(* (no data.json), "corrupt" (content json.load rejects, such as a file    *)
(* cut short) or "list" (a JSON array, recs).                              *)

FileOf(recs) == [st |-> "list", recs |-> recs]
AbsentFile == [st |-> "absent", recs |-> <<>>]
CorruptFile == [st |-> "corrupt", recs |-> <<>>]

Ret(status, list) == [status |-> status, list |-> list]

\* Ledger.save.  io is what the file system does: "ok"; "open_fails" (open()
\* raises, the file is as before); "write_fails" (open() truncated the file
\* and the write raised part-way).
save(es, f, io) ==
    IF io = "ok" THEN [file |-> FileOf([i \in 1..Len(es) |-> to_dict(es[i])]), raised |-> FALSE]
    ELSE IF io = "open_fails" THEN [file |-> f, raised |-> TRUE]
    ELSE [file |-> CorruptFile, raised |-> TRUE]

\* add with the save() call left out.
add_nosave(es, f, entry, io) ==
    [entries |-> Append(es, entry), file |-> f, ret |-> Ret("ok", <<>>)]

\* Ledger.add
add(es, f, entry, io) ==
    LET appended == Append(es, entry)
        sv == save(appended, f, io)
    IN [entries |-> appended, file |-> sv.file,
        ret |-> Ret(IF sv.raised THEN "raise" ELSE "ok", <<>>)]

\* delete with `changed` computed by <= : it saves and reports a removal
\* even when nothing was removed.
delete_always_saves(es, f, entry_id, io) ==
    LET kept == SelectSeq(es, LAMBDA e : e.id # entry_id)
        sv == save(kept, f, io)
    IN [entries |-> kept, file |-> sv.file,
        ret |-> Ret(IF sv.raised THEN "raise" ELSE "true", <<>>)]

\* Ledger.delete
delete(es, f, entry_id, io) ==
    LET before == Len(es)
        kept == SelectSeq(es, LAMBDA e : e.id # entry_id)
        changed == Len(kept) < before
        sv == save(kept, f, io)
    IN IF changed
       THEN [entries |-> kept, file |-> sv.file,
             ret |-> Ret(IF sv.raised THEN "raise" ELSE "true", <<>>)]
       ELSE [entries |-> kept, file |-> f, ret |-> Ret("false", <<>>)]

\* hasattr(e, k): the attributes Entry.__init__ sets.
HasAttr(k) == k \in Fields

\* The loop over kwargs.items() of Ledger.update from item i on: ok = FALSE
\* when float(v) raised, with e as the items before it left it.
RECURSIVE ApplyKwargs(_, _, _)
ApplyKwargs(e, kwargs, i) ==
    IF i > Len(kwargs) THEN [e |-> e, ok |-> TRUE]
    ELSE LET k == kwargs[i].k
             v == kwargs[i].v
         IN IF ~(HasAttr(k) /\ v.t # "null") THEN ApplyKwargs(e, kwargs, i + 1)
            ELSE IF k = "amount"
                 THEN IF ToFloat(v).ok
                      THEN ApplyKwargs([e EXCEPT !.amount = ToFloat(v).val], kwargs, i + 1)
                      ELSE [e |-> e, ok |-> FALSE]
            ELSE ApplyKwargs([e EXCEPT ![k] = v.s], kwargs, i + 1)

\* Index of the first entry with the id, 0 when there is none.
FirstIndex(es, entry_id) ==
    IF \E i \in 1..Len(es) : es[i].id = entry_id
    THEN CHOOSE i \in 1..Len(es) :
            es[i].id = entry_id /\ \A j \in 1..(i - 1) : es[j].id # entry_id
    ELSE 0

\* Ledger.update
update(es, f, entry_id, kwargs, io) ==
    LET i == FirstIndex(es, entry_id)
    IN IF i = 0 THEN [entries |-> es, file |-> f, ret |-> Ret("notfound", <<>>)]
       ELSE LET r == ApplyKwargs(es[i], kwargs, 1)
                changed == [es EXCEPT ![i] = r.e]
                sv == save(changed, f, io)
            IN IF ~r.ok THEN [entries |-> changed, file |-> f, ret |-> Ret("raise", <<>>)]
               ELSE [entries |-> changed, file |-> sv.file,
                     ret |-> IF sv.raised THEN Ret("raise", <<>>) ELSE Ret("entry", <<r.e>>)]

\* search with the keyword compared as given, not lower-cased.
search_keyword_as_given(es, keyword) ==
    SelectSeq(es, LAMBDA e : \/ Contains(keyword, Lower(e.title))
                             \/ Contains(keyword, Lower(e.category))
                             \/ Contains(keyword, Lower(e.note)))

\* Ledger.search
search(es, keyword) ==
    LET kw == Lower(keyword)
    IN SelectSeq(es, LAMBDA e : \/ Contains(kw, Lower(e.title))
                                \/ Contains(kw, Lower(e.category))
                                \/ Contains(kw, Lower(e.note)))

\* sorted(es, key=date, reverse=True): a stable sort, so x goes after every
\* element whose key is not smaller than its own.
InsertDesc(acc, x) ==
    LET p == Cardinality({j \in 1..Len(acc) : ~StrLess(acc[j].date, x.date)})
    IN SubSeq(acc, 1, p) \o <<x>> \o SubSeq(acc, p + 1, Len(acc))

RECURSIVE SortedDesc(_)
SortedDesc(es) ==
    IF es = <<>> THEN <<>>
    ELSE InsertDesc(SortedDesc(SubSeq(es, 1, Len(es) - 1)), es[Len(es)])

\* sorted(es, key=date) without reverse=True.
InsertAsc(acc, x) ==
    LET p == Cardinality({j \in 1..Len(acc) : ~StrLess(x.date, acc[j].date)})
    IN SubSeq(acc, 1, p) \o <<x>> \o SubSeq(acc, p + 1, Len(acc))

RECURSIVE SortedAsc(_)
SortedAsc(es) ==
    IF es = <<>> THEN <<>>
    ELSE InsertAsc(SortedAsc(SubSeq(es, 1, Len(es) - 1)), es[Len(es)])

list_all_ascending(es) == [entries |-> es, list |-> SortedAsc(es)]

\* self.entries.sort(...) in place of sorted(self.entries, ...).
list_all_in_place(es) == [entries |-> SortedDesc(es), list |-> SortedDesc(es)]

\* Ledger.list_all: the sorted copy, and self.entries after the call.
list_all(es) == [entries |-> es, list |-> SortedDesc(es)]

\* sum(e.amount for e in es if e.kind == kind)
RECURSIVE SumKind(_, _)
SumKind(es, kind) ==
    IF es = <<>> THEN 0
    ELSE (IF Head(es).kind = kind THEN Head(es).amount ELSE 0) + SumKind(Tail(es), kind)

\* total_balance with the kind "gift" counted as an expense.
total_balance_else_expense(es) ==
    LET income == SumKind(es, INCOME)
        expense == SumKind(es, EXPENSE) + SumKind(es, GIFT)
    IN [income |-> income, expense |-> expense, balance |-> income - expense]

\* Ledger.total_balance
total_balance(es) ==
    LET income == SumKind(es, INCOME)
        expense == SumKind(es, EXPENSE)
    IN [income |-> income, expense |-> expense, balance |-> income - expense]

\* Records 1..i of a file that need a generated id.
Drawn(recs, i) == Cardinality({j \in 1..i : Falsy(Get(recs[j], "id", JNull))})

\* Ledger.load with n identifiers generated so far.
load(f, n) ==
    IF f.st # "list" THEN [entries |-> <<>>, nuuid |-> n]
    ELSE LET bad == {i \in 1..Len(f.recs) : from_dict_raises(f.recs[i])}
         IN IF bad # {}
            THEN [entries |-> <<>>,
                  nuuid |-> n + Drawn(f.recs, CHOOSE i \in bad : \A j \in bad : i <= j)]
            ELSE [entries |-> [i \in 1..Len(f.recs) |->
                                  from_dict(f.recs[i], Uuid(n + Drawn(f.recs, i)))],
                  nuuid |-> n + Drawn(f.recs, Len(f.recs))]

-----------------------------------------------------------------------------
(* Inputs *)

T1 == <<"A", "b">>
T2 == <<"b">>
CAT == <<"B", "a">>
NOTE == <<"a", "a">>
THREE == <<"3">>
NAN == <<"a", "b">>
IDZ == <<"z">>

Args(title, amount, category, kind, note, date, id) ==
    [title |-> title, amount |-> amount, category |-> category, kind |-> kind,
     note |-> note, date |-> date, id |-> id]

\* Constructor arguments of the entries handed to Ledger.add.
AddInputs ==
    {Args(JStr(T2), JNum(1), JStr(CAT), JStr(EXPENSE), JStr(NOTE), JNull, JNull),
     Args(JStr(T1), JStr(THREE), JStr(<<>>), JStr(GIFT), JStr(<<>>), JStr(D1), JStr(<<>>)),
     Args(JStr(T1), JStr(NAN), JStr(<<>>), JStr(INCOME), JStr(<<>>), JStr(D1), JNull),
     Args(JStr(T1), JNum(2), JStr(<<>>), JStr(INCOME), JStr(<<>>), JStr(<<>>), JStr(IDA)),
     Args(JStr(<<>>), JNum(4), JStr(<<>>), JStr(EXPENSE), JStr(<<>>), JStr(D3), JStr(IDB))}

Kw(k, v) == [k |-> k, v |-> v]

\* Keyword arguments of Ledger.update, in the order they are passed.
UpdateInputs ==
    {<<Kw("title", JStr(T2)), Kw("amount", JStr(THREE))>>,
     <<Kw("title", JNull), Kw("color", JStr(T2)), Kw("kind", JStr(GIFT))>>,
     <<Kw("category", JNull), Kw("date", JStr(<<>>))>>,
     <<Kw("date", JStr(D3)), Kw("note", JStr(NOTE))>>,
     <<Kw("id", JStr(IDB))>>,
     <<Kw("title", JStr(T2)), Kw("amount", JStr(NAN)), Kw("note", JStr(NOTE))>>}

\* Ids named by delete and update: one a caller supplied, one that was
\* generated, one that no entry has.
IdInputs == {IDA, Uuid(1), IDZ}

Keywords == {<<>>, <<"a">>, <<"A", "B">>, <<"B">>, <<"b", "b">>}

SaveOutcomes == {"ok", "open_fails", "write_fails"}

Rec(id, title, amount, category, kind, note, date) ==
    [id |-> id, title |-> title, amount |-> amount, category |-> category,
     kind |-> kind, note |-> note, date |-> date]

RA == Rec(JStr(IDA), JStr(T1), JNum(5), JStr(CAT), JStr(INCOME), JStr(<<>>), JStr(D1))
RB == Rec(JStr(IDB), JStr(T2), JNum(2), JStr(<<>>), JStr(EXPENSE), JStr(NOTE), JStr(D3))
RC == Rec(JStr(IDC), JStr(T2), JNum(1), JStr(<<>>), JStr(GIFT), JStr(<<>>), JStr(D2))
\* A record written by hand: no id, kind, note or date, the amount a string.
RBare == Rec(Missing, JStr(T1), JStr(THREE), Missing, Missing, Missing, Missing)
RBad == Rec(JStr(IDB), JStr(T1), JNull, JStr(<<>>), JStr(INCOME), JStr(<<>>), JStr(D1))

\* The data.json the process may find when it starts.
InitFiles ==
    {AbsentFile, CorruptFile, FileOf(<<>>), FileOf(<<RA, RB>>), FileOf(<<RA, RC, RB>>),
     FileOf(<<RBare, RA>>), FileOf(<<RBare, RBad>>)}

-----------------------------------------------------------------------------
(* The process: the global `ledger` and the calls made on it.  call and    *)
(* ret record the last call and what it returned ("raise": an exception    *)
(* left it); prevEntries and prevFile are the state it started from.       *)

VARIABLES entries, file, nuuid, nops, call, ret, stats, prevEntries, prevFile

vars == <<entries, file, nuuid, nops, call, ret, stats, prevEntries, prevFile>>

Call(op, id, keyword) == [op |-> op, id |-> id, keyword |-> keyword]

NoStats == [income |-> 0, expense |-> 0, balance |-> 0]

\* ledger = Ledger(): __init__ calls load().
Init ==
    /\ file \in InitFiles
    /\ entries = load(file, 0).entries
    /\ nuuid = load(file, 0).nuuid
    /\ nops = 0
    /\ call = Call("init", <<>>, <<>>)
    /\ ret = Ret("ok", <<>>)
    /\ stats = NoStats
    /\ prevEntries = <<>>
    /\ prevFile = file

Begin(op, id, keyword) ==
    /\ nops < MaxOps
    /\ nops' = nops + 1
    /\ call' = Call(op, id, keyword)
    /\ prevEntries' = entries
    /\ prevFile' = file

Read(op, keyword) ==
    /\ UNCHANGED nops
    /\ call' = Call(op, <<>>, keyword)
    /\ prevEntries' = entries
    /\ prevFile' = file

\* Entry(...) followed by ledger.add(entry), as api_create does.
Add(a, io) ==
    /\ Begin("add", <<>>, <<>>)
    /\ nuuid' = IF DrawsUuid(a.id) THEN nuuid + 1 ELSE nuuid
    /\ stats' = NoStats
    /\ IF EntryRaises(a.amount)
       THEN /\ ret' = Ret("raise", <<>>)
            /\ UNCHANGED <<entries, file>>
       ELSE LET entry == EntryInit(a.title, a.amount, a.category, a.kind, a.note,
                                   a.date, a.id, Uuid(nuuid + 1))
                r == add(entries, file, entry, io)
            IN /\ entries' = r.entries
               /\ file' = r.file
               /\ ret' = r.ret

Delete(entry_id, io) ==
    /\ Begin("delete", entry_id, <<>>)
    /\ LET r == delete(entries, file, entry_id, io)
       IN /\ entries' = r.entries
          /\ file' = r.file
          /\ ret' = r.ret
    /\ stats' = NoStats
    /\ UNCHANGED nuuid

Update(entry_id, kwargs, io) ==
    /\ Begin("update", entry_id, <<>>)
    /\ LET r == update(entries, file, entry_id, kwargs, io)
       IN /\ entries' = r.entries
          /\ file' = r.file
          /\ ret' = r.ret
    /\ stats' = NoStats
    /\ UNCHANGED nuuid

Search(keyword) ==
    /\ Read("search", keyword)
    /\ ret' = Ret("ok", search(entries, keyword))
    /\ stats' = NoStats
    /\ UNCHANGED <<entries, file, nuuid>>

ListAll ==
    /\ Read("list_all", <<>>)
    /\ entries' = list_all(entries).entries
    /\ ret' = Ret("ok", list_all(entries).list)
    /\ stats' = NoStats
    /\ UNCHANGED <<file, nuuid>>

TotalBalance ==
    /\ Read("total_balance", <<>>)
    /\ ret' = Ret("ok", <<>>)
    /\ stats' = total_balance(entries)
    /\ UNCHANGED <<entries, file, nuuid>>

\* The process ends and a new one starts: Ledger() loads data.json again.
Restart ==
    /\ Begin("load", <<>>, <<>>)
    /\ entries' = load(file, nuuid).entries
    /\ nuuid' = load(file, nuuid).nuuid
    /\ ret' = Ret("ok", <<>>)
    /\ stats' = NoStats
    /\ UNCHANGED file

Next ==
    \/ \E a \in AddInputs, io \in SaveOutcomes : Add(a, io)
    \/ \E id \in IdInputs, io \in SaveOutcomes : Delete(id, io)
    \/ \E id \in IdInputs, kwargs \in UpdateInputs, io \in SaveOutcomes : Update(id, kwargs, io)
    \/ \E keyword \in Keywords : Search(keyword)
    \/ ListAll
    \/ TotalBalance
    \/ Restart

Spec == Init /\ [][Next]_vars

-----------------------------------------------------------------------------
(* Properties *)

Mutators == {"add", "delete", "update"}

\* The record r of the data file has exactly the field values of entry e.
SameFields(r, e) ==
    /\ r.id = [t |-> "str", s |-> e.id, n |-> 0]
    /\ r.title = [t |-> "str", s |-> e.title, n |-> 0]
    /\ r.amount = [t |-> "num", s |-> <<>>, n |-> e.amount]
    /\ r.category = [t |-> "str", s |-> e.category, n |-> 0]
    /\ r.kind = [t |-> "str", s |-> e.kind, n |-> 0]
    /\ r.note = [t |-> "str", s |-> e.note, n |-> 0]
    /\ r.date = [t |-> "str", s |-> e.date, n |-> 0]

\* The data file holds the list es (no file at all holds the empty list).
FileHolds(f, es) ==
    /\ f.st # "corrupt"
    /\ Len(f.recs) = Len(es)
    /\ \A i \in 1..Len(es) : SameFields(f.recs[i], es[i])

Returned == ret.status # "raise"

\* C1 as stated: after every add, delete or update call that returns, the
\* records in the data file equal the in-memory entries.
C1_FileEqualsMemoryAfterEveryCall ==
    (call.op \in Mutators /\ Returned) => FileHolds(file, entries)

\* C1 amended: after every add that returns, every delete that returns true
\* and every update that returns the entry, the records in the data file
\* equal the in-memory entries; a delete or update that matches no entry
\* leaves the file as it was.
C1_FileEqualsMemoryAfterSave ==
    /\ (call.op \in Mutators /\ ret.status \in {"ok", "true", "entry"})
          => FileHolds(file, entries)
    /\ (call.op \in Mutators /\ ret.status \in {"false", "notfound"})
          => file = prevFile

C1_Witness ==
    /\ call.op = "add"
    /\ ret.status = "ok"
    /\ Len(entries) >= 3
    /\ ~FileHolds(prevFile, prevEntries)

\* C2: a failed add, delete or update leaves the in-memory collection and
\* the data file exactly as they were before the call.
C2_AllOrNothing ==
    (call.op \in Mutators /\ ret.status = "raise")
        => (entries = prevEntries /\ file = prevFile)

\* C3: no two entries of the collection have the same id.
C3_UniqueIds ==
    \A i, j \in 1..Len(entries) : i # j => entries[i].id # entries[j].id

\* C4: an update call leaves the id of every entry as it was.
C4_UpdateKeepsId ==
    call.op = "update"
        => /\ Len(entries) = Len(prevEntries)
           /\ \A i \in 1..Len(prevEntries) : entries[i].id = prevEntries[i].id

UnknownId == \A i \in 1..Len(prevEntries) : prevEntries[i].id # call.id

\* C5: delete or update of an id no entry has reports failure (false, not
\* found) and changes neither the collection nor the data file.
C5_UnknownIdChangesNothing ==
    (call.op \in {"delete", "update"} /\ UnknownId)
        => /\ ret.status = (IF call.op = "delete" THEN "false" ELSE "notfound")
           /\ entries = prevEntries
           /\ file = prevFile

C5_Witness ==
    /\ call.op = "delete"
    /\ UnknownId
    /\ Len(prevEntries) >= 2
    /\ ~FileHolds(prevFile, prevEntries)

\* C6: from_dict(to_dict(e)) has the fields of e, for every entry e held.
C6_RoundTrip ==
    \A i \in 1..Len(entries) :
        from_dict(to_dict(entries[i]), Uuid(nuuid + 1)) = entries[i]

\* Sum of the amounts at the positions in S.
RECURSIVE SumAt(_, _)
SumAt(es, S) ==
    IF S = {} THEN 0
    ELSE LET i == CHOOSE x \in S : TRUE IN es[i].amount + SumAt(es, S \ {i})

\* C7: income and expense are the sums of amount over the entries of that
\* kind, balance is income - expense, entries of other kinds count nowhere.
C7_TotalBalance ==
    call.op = "total_balance"
        => /\ stats.income = SumAt(entries, {i \in 1..Len(entries) : entries[i].kind = INCOME})
           /\ stats.expense = SumAt(entries, {i \in 1..Len(entries) : entries[i].kind = EXPENSE})
           /\ stats.balance = stats.income - stats.expense

C7_Witness ==
    /\ call.op = "total_balance"
    /\ stats.income > 0
    /\ stats.expense > 0
    /\ \E i \in 1..Len(entries) : entries[i].kind = GIFT /\ entries[i].amount > 0

\* kw occurs in s at some offset, case ignored.
OccursIn(kw, s) ==
    \E off \in 0..Len(s) :
        /\ off + Len(kw) <= Len(s)
        /\ \A j \in 1..Len(kw) : LowerChar(s[off + j]) = LowerChar(kw[j])

Matches(e, kw) == OccursIn(kw, e.title) \/ OccursIn(kw, e.category) \/ OccursIn(kw, e.note)

\* C8: search returns exactly the entries whose title, category or note
\* contains the keyword, case ignored; the empty keyword returns them all.
C8_Search ==
    call.op = "search"
        => /\ ret.list = SelectSeq(entries, LAMBDA e : Matches(e, call.keyword))
           /\ call.keyword = <<>> => ret.list = entries

C8_Witness ==
    /\ call.op = "search"
    /\ \E j \in 1..Len(call.keyword) : LowerChar(call.keyword[j]) # call.keyword[j]
    /\ ret.list # <<>>
    /\ Len(ret.list) < Len(entries)

\* a is before b in the order of strings.
Before(a, b) ==
    \E k \in 1..Len(b) :
        /\ Len(a) >= k - 1
        /\ \A m \in 1..(k - 1) : a[m] = b[m]
        /\ Len(a) >= k => Ord(a[k]) < Ord(b[k])

Count(seq, x) == Cardinality({i \in 1..Len(seq) : seq[i] = x})

\* C9: list_all returns every entry exactly once, dates never increasing,
\* and leaves the stored collection as it was.
C9_ListAll ==
    call.op = "list_all"
        => /\ Len(ret.list) = Len(prevEntries)
           /\ \A i \in 1..Len(prevEntries) :
                Count(ret.list, prevEntries[i]) = Count(prevEntries, prevEntries[i])
           /\ \A i, j \in 1..Len(ret.list) :
                i < j => ~Before(ret.list[i].date, ret.list[j].date)
           /\ entries = prevEntries

C9_Witness ==
    /\ call.op = "list_all"
    /\ Len(ret.list) >= 3
    /\ ret.list # prevEntries
    /\ \E i, j \in 1..Len(ret.list) : Before(ret.list[j].date, ret.list[i].date)

\* C10 as stated: in the list list_all returns, an entry with an empty date
\* comes before every entry with a non-empty date.
C10_EmptyDateFirst ==
    call.op = "list_all"
        => \A i, j \in 1..Len(ret.list) :
              (ret.list[i].date = <<>> /\ ret.list[j].date # <<>>) => i < j

\* C10 amended: in the list list_all returns, an entry with an empty date
\* comes after every entry with a non-empty date.
C10_EmptyDateLast ==
    call.op = "list_all"
        => \A i, j \in 1..Len(ret.list) :
              (ret.list[i].date = <<>> /\ ret.list[j].date # <<>>) => i > j

C10_Witness ==
    /\ call.op = "list_all"
    /\ \E i, j \in 1..Len(ret.list) : ret.list[i].date = <<>> /\ ret.list[j].date # <<>>
    /\ ret.list # prevEntries

====
